---- MODULE Spec2Model ----
(***************************************************************************)
(* Model of the hardware-wallet interface of bp-hwi:                       *)
(*   - src/src/bitbox.rs : extract_script_config_policy, the compiler of a *)
(*     descriptor-like policy string into (template, key list);            *)
(*   - src/src/ledger.rs : the Ledger session (attached wallet policy,     *)
(*     display_xpub option) and its operations display_address,            *)
(*     register_wallet, is_wallet_registered and sign_tx.                  *)
(*                                                                         *)
(* Text is modelled as a sequence of lexical units (strings): a unit is a  *)
(* punctuation character, a fingerprint text, a path component, a whole    *)
(* extended-key text (which the regular expression of bitbox.rs:132 can    *)
(* only match as a whole) or a run of other characters.                    *)
(***************************************************************************)
EXTENDS Integers, Sequences, FiniteSets, TLC

VARIABLES
    policy,        \* bitbox: the policy text given to extract_script_config_policy
    result,        \* bitbox: what extract_script_config_policy returned
    wallet,        \* ledger: options.wallet, << >> (None) or <<[policy, hmac]>>
    display_xpub,  \* ledger: options.display_xpub
    requests,      \* ledger: the requests the last operation sent to the device
    ret,           \* ledger: the last operation, its arguments and its result
    psbt_in,       \* ledger: the inputs of the transaction given to sign_tx
    sigs,          \* ledger: the records the device returned to sign_tx
    psbt           \* ledger: the inputs of the transaction after sign_tx

vars == <<policy, result, wallet, display_xpub, requests, ret, psbt_in, sigs, psbt>>
bitboxVars == <<policy, result>>
ledgerVars == <<wallet, display_xpub, requests, ret, psbt_in, sigs, psbt>>

\* The number of key-expression pieces a policy text is composed of.
MaxPieces == 3
\* The number of signature records the device returns in one sign_tx call.
MaxRecords == 3

Min(S) == CHOOSE x \in S : \A y \in S : x <= y
Max(S) == CHOOSE x \in S : \A y \in S : y <= x

\* Option<T>: None is << >>, Some(x) is <<x>>.
None == << >>
Some(x) == <<x>>

(***************************************************************************)
(* Text helpers (Rust str methods used by bitbox.rs).                      *)
(***************************************************************************)

\* The positions of unit c in text s.
Positions(s, c) == {i \in 1..Len(s) : s[i] = c}

\* str::split_once(c): <<before, after>> of the first c, or None.
split_once(s, c) ==
    IF Positions(s, c) = {} THEN None
    ELSE LET i == Min(Positions(s, c))
         IN  Some(<<SubSeq(s, 1, i - 1), SubSeq(s, i + 1, Len(s))>>)

\* str::rsplit_once(c): <<before, after>> of the last c, or None.
rsplit_once(s, c) ==
    IF Positions(s, c) = {} THEN None
    ELSE LET i == Max(Positions(s, c))
         IN  Some(<<SubSeq(s, 1, i - 1), SubSeq(s, i + 1, Len(s))>>)

\* str::strip_prefix(c): the rest after a leading c, or None.
strip_prefix(s, c) ==
    IF Len(s) > 0 /\ s[1] = c THEN Some(Tail(s)) ELSE None

\* str::replace(from, to): every non-overlapping occurrence of from, left to
\* right, replaced by to.
RECURSIVE replace(_, _, _)
replace(s, from, to) ==
    IF Len(s) < Len(from) THEN s
    ELSE IF SubSeq(s, 1, Len(from)) = from
         THEN to \o replace(SubSeq(s, Len(from) + 1, Len(s)), from, to)
         ELSE <<s[1]>> \o replace(Tail(s), from, to)

\* format!("@{}", index)
Placeholder(index) == "@" \o ToString(index)

(***************************************************************************)
(* The parsers of the bitcoin crate, as bitbox.rs uses them.               *)
(***************************************************************************)

\* Texts matching [xyYzZtuUvV]pub[1-9A-HJ-NP-Za-km-z]{79,108}: two that
\* decode to an extended key, and one with a bad checksum.
ValidXpubTexts == {"xpubAAA", "xpubBBB"}
XpubTexts == ValidXpubTexts \cup {"xpubBAD"}

\* ExtendedPubKey::from_str: Some(key) or None.
ExtendedPubKey_from_str(s) ==
    IF Len(s) = 1 /\ s[1] \in ValidXpubTexts THEN Some(s[1]) ELSE None

\* Fingerprint::from_str: 8 hex digits of either case give the 4 bytes.
FingerprintBytes ==
    [x \in {"d34db33f", "D34DB33F", "aabbccdd"} |->
        IF x = "aabbccdd" THEN "aabbccdd" ELSE "d34db33f"]

Fingerprint_from_str(s) ==
    IF Len(s) = 1 /\ s[1] \in DOMAIN FingerprintBytes
    THEN Some(FingerprintBytes[s[1]]) ELSE None

\* The texts of one child number.
ChildNumberTexts == {"48'", "0"}

\* DerivationPath::from_str of "m/" followed by path_str: child numbers
\* separated by "/".  Some(path) or None.
RECURSIVE DerivationPath_from_str(_)
DerivationPath_from_str(path_str) ==
    IF Len(path_str) = 0 \/ path_str[1] \notin ChildNumberTexts THEN None
    ELSE IF Len(path_str) = 1 THEN Some(<<path_str[1]>>)
    ELSE IF path_str[2] # "/" THEN None
    ELSE LET rest == DerivationPath_from_str(SubSeq(path_str, 3, Len(path_str)))
         IN  IF rest = None THEN None ELSE Some(<<path_str[1]>> \o rest[1])

(***************************************************************************)
(* Regex ((\[.+?\])?[xyYzZtuUvV]pub[1-9A-HJ-NP-Za-km-z]{79,108})           *)
(***************************************************************************)

\* The closing brackets q that end an origin opened at p: at least one unit
\* between them, and an extended-key text right after.
BracketEnds(s, p) ==
    {q \in (p + 2)..(Len(s) - 1) : s[q] = "]" /\ s[q + 1] \in XpubTexts}

\* The end of the match starting at p, or 0.  The origin group is lazy: it
\* ends at the first closing bracket that an extended-key text follows.
MatchEnd(s, p) ==
    IF s[p] = "[" /\ BracketEnds(s, p) # {} THEN Min(BracketEnds(s, p)) + 1
    ELSE IF s[p] \in XpubTexts THEN p
    ELSE 0

\* Regex::find_iter: the leftmost non-overlapping matches from position from
\* on, each as [start, end].
RECURSIVE find_iter(_, _)
find_iter(s, from) ==
    LET starts == {p \in from..Len(s) : MatchEnd(s, p) # 0}
    IN  IF starts = {} THEN << >>
        ELSE LET p == Min(starts)
             IN  <<[start |-> p, end |-> MatchEnd(s, p)]>>
                     \o find_iter(s, MatchEnd(s, p) + 1)

(***************************************************************************)
(* extract_script_config_policy                                            *)
(***************************************************************************)

InvalidParameter == [tag |-> "InvalidParameter", template |-> << >>, keys |-> << >>]

\* The body of the loop that turns one capture into a KeyOriginInfo:
\* [ok |-> TRUE, key |-> ...] or [ok |-> FALSE].
NoKey == [ok |-> FALSE, key |-> [root_fingerprint |-> None, keypath |-> None, xpub |-> ""]]

KeyOriginInfo(capture) ==
    IF ExtendedPubKey_from_str(capture) # None
    THEN [ok |-> TRUE,
          key |-> [root_fingerprint |-> None, keypath |-> None,
                   xpub |-> ExtendedPubKey_from_str(capture)[1]]]
    ELSE LET stripped == strip_prefix(capture, "[")
             parts == IF stripped = None THEN None ELSE rsplit_once(stripped[1], "]")
         IN  IF parts = None THEN NoKey
             ELSE
             LET keysource_str == parts[1][1]
                 xpub_str0 == parts[1][2]
                 fp_path == IF split_once(keysource_str, "/") = None
                            THEN <<keysource_str, << >> >>
                            ELSE split_once(keysource_str, "/")[1]
                 f_str == fp_path[1]
                 path_str == fp_path[2]
                 fingerprint == Fingerprint_from_str(f_str)
                 derivation_path == IF path_str = << >> THEN Some(<< >>)
                                    ELSE DerivationPath_from_str(path_str)
                 xpub_str == IF rsplit_once(xpub_str0, "/") = None THEN xpub_str0
                             ELSE rsplit_once(xpub_str0, "/")[1][1]
                 xpub == ExtendedPubKey_from_str(xpub_str)
             IN  IF fingerprint = None \/ derivation_path = None \/ xpub = None
                 THEN NoKey
                 ELSE [ok |-> TRUE,
                       key |-> [root_fingerprint |-> fingerprint,
                                keypath |-> derivation_path,
                                xpub |-> xpub[1]]]

Contains(seq, x) == \E i \in 1..Len(seq) : seq[i] = x

\* The for loop over re.find_iter(policy).enumerate(), from iteration index
\* on, and the rest of the function.
RECURSIVE ExtractLoop(_, _, _, _, _)
ExtractLoop(text, matches, index, descriptor_template, pubkeys) ==
    IF index >= Len(matches)
    THEN LET template == IF rsplit_once(descriptor_template, "#") = None
                         THEN descriptor_template
                         ELSE rsplit_once(descriptor_template, "#")[1][1]
         IN  [tag |-> "Ok", template |-> template, keys |-> pubkeys]
    ELSE LET m == matches[index + 1]
             capture == SubSeq(text, m.start, m.end)
             pubkey == KeyOriginInfo(capture)
         IN  IF ~pubkey.ok THEN InvalidParameter
             ELSE ExtractLoop(text, matches, index + 1,
                      replace(descriptor_template, capture, <<Placeholder(index)>>),
                      IF Contains(pubkeys, pubkey.key) THEN pubkeys
                      ELSE Append(pubkeys, pubkey.key))

extract_script_config_policy(text) ==
    ExtractLoop(text, find_iter(text, 1), 0, text, << >>)

(***************************************************************************)
(* The policy texts extract_script_config_policy is applied to: up to      *)
(* MaxPieces key expressions separated by commas inside wsh(multi(2,...)), *)
(* with or without a checksum.                                             *)
(***************************************************************************)

Pieces ==
    { <<"xpubAAA">>,
      <<"xpubBBB">>,
      <<"[", "d34db33f", "]", "xpubAAA">>,
      <<"[", "D34DB33F", "]", "xpubAAA">>,
      <<"[", "d34db33f", "/", "48'", "/", "0", "]", "xpubBBB">>,
      <<"[", "d34db33f", "/", "48'", "xpubBBB">>,       \* no closing bracket
      <<"[", "zz", "]", "xpubAAA">>,                    \* fingerprint not hex
      <<"[", "aabbccdd", "/", "zz", "]", "xpubAAA">>,   \* path not child numbers
      <<"xpubBAD">>,                                    \* undecodable key
      <<"[", "aabbccdd", "]", "xpubBAD">> }

PieceSeqs == UNION {[1..n -> Pieces] : n \in 1..MaxPieces}

RECURSIVE Join(_)
Join(ps) ==
    IF Len(ps) = 1 THEN ps[1] ELSE ps[1] \o <<",">> \o Join(Tail(ps))

PolicyTexts ==
    {<<"wsh(multi(2,">> \o Join(ps) \o <<"))">> \o cs :
        ps \in PieceSeqs, cs \in {<< >>, <<"#", "xyz">>}}

NotCalled == [tag |-> "none", template |-> << >>, keys |-> << >>]

\* What the last operation of the session was and returned.
NoScript == [kind |-> "", index |-> 0, change |-> FALSE]
Return(op, tag, value, name, pol, script) ==
    [op |-> op, tag |-> tag, value |-> value, name |-> name, policy |-> pol,
     script |-> script]
NoCall == Return("none", "", None, "", "", NoScript)

LedgerIdle ==
    /\ wallet = None
    /\ display_xpub = FALSE
    /\ requests = << >>
    /\ ret = NoCall
    /\ psbt_in = << >>
    /\ sigs = << >>
    /\ psbt = << >>

InitPolicy ==
    /\ policy \in PolicyTexts
    /\ result = NotCalled
    /\ LedgerIdle

ExtractScriptConfigPolicy ==
    /\ result = NotCalled
    /\ result' = extract_script_config_policy(policy)
    /\ UNCHANGED <<policy, ledgerVars>>

NextPolicy == ExtractScriptConfigPolicy

SpecPolicy == InitPolicy /\ [][NextPolicy]_vars

(***************************************************************************)
(* ledger.rs: the collaborators of the Ledger session.                     *)
(***************************************************************************)

\* The policy strings given to with_wallet, register_wallet and
\* is_wallet_registered.
PolicyStrings ==
    { "wsh(multi(2,xpubAAA,xpubBBB))",
      "wsh(multi(2,xpubAAA,xpubBBB))#xyz",
      "wsh(multi(2,xpubBBB,xpubAAA))",
      "wsh(pk(xpubAAA))",
      "wsh(pk([d34db33fxpubAAA))" }

\* utils::extract_keys_and_template: the template and the key list of a policy
\* string, or InvalidParameter.
extract_keys_and_template(p) ==
    CASE p \in {"wsh(multi(2,xpubAAA,xpubBBB))", "wsh(multi(2,xpubAAA,xpubBBB))#xyz"} ->
             [tag |-> "Ok", descriptor_template |-> "wsh(multi(2,@0,@1))",
              keys |-> <<"xpubAAA", "xpubBBB">>]
      [] p = "wsh(multi(2,xpubBBB,xpubAAA))" ->
             [tag |-> "Ok", descriptor_template |-> "wsh(multi(2,@0,@1))",
              keys |-> <<"xpubBBB", "xpubAAA">>]
      [] p = "wsh(pk(xpubAAA))" ->
             [tag |-> "Ok", descriptor_template |-> "wsh(pk(@0))",
              keys |-> <<"xpubAAA">>]
      [] p = "tr([f00dbabe/86'/0'/0']xpubDEV/**)" ->
             [tag |-> "Ok", descriptor_template |-> "tr(@0/**)",
              keys |-> <<"[f00dbabe/86'/0'/0']xpubDEV">>]
      [] OTHER ->
             [tag |-> "InvalidParameter", descriptor_template |-> "", keys |-> << >>]

\* WalletPolicy::new(name, WalletVersion::V2, descriptor_template, keys)
WalletPolicy_new(name, descriptor_template, keys) ==
    [name |-> name, version |-> "V2",
     descriptor_template |-> descriptor_template, keys |-> keys]

NoPolicy == WalletPolicy_new("", "", << >>)

\* Child numbers and the derivation paths given to display_address.
Hardened(i) == [index |-> i, hardened |-> TRUE]
Normal(i) == [index |-> i, hardened |-> FALSE]
DerivationPaths ==
    { <<Hardened(86), Hardened(0), Hardened(0), Normal(c), Normal(i)>> :
          c \in {0, 1}, i \in {0, 7} }
    \cup { <<Hardened(86), Hardened(0), Hardened(0)>>,
           <<Hardened(86), Hardened(0), Normal(0), Normal(0), Normal(0)>> }

\* utils::bip86_path_child_numbers: the five child numbers of a path made of
\* three hardened and two normal ones, or InvalidParameter (None here).
bip86_path_child_numbers(path) ==
    IF /\ Len(path) = 5
       /\ \A k \in 1..3 : path[k].hardened
       /\ \A k \in 4..5 : ~path[k].hardened
    THEN Some(path) ELSE None

\* How the device answers one request; From<BitcoinClientError> for HWIError
\* turns a failure into UserRefused (status Deny) or Device.
DeviceStatus == {"Ok", "Deny", "Error"}
HWIError_from(status) == IF status = "Deny" THEN "UserRefused" ELSE "Device"

\* The requests of BitcoinClient, as sent to the device.
Request(op, wp, hmac, change, index, display) ==
    [op |-> op, policy |-> wp, hmac |-> hmac, change |-> change,
     index |-> index, display |-> display]
get_master_fingerprint == Request("get_master_fingerprint", NoPolicy, None, FALSE, 0, FALSE)
get_extended_pubkey(display) ==
    Request("get_extended_pubkey", NoPolicy, None, FALSE, 0, display)
get_wallet_address(wp, hmac, change, index, display) ==
    Request("get_wallet_address", wp, hmac, change, index, display)
client_register_wallet(wp) == Request("register_wallet", wp, None, FALSE, 0, FALSE)
sign_psbt(wp, hmac) == Request("sign_psbt", wp, hmac, FALSE, 0, FALSE)

\* The requests actually sent when the device answers the k-th of reqs with
\* status[k]: those up to the first failure, and the error of that failure.
FirstFailure(status, n) == {k \in 1..n : status[k] # "Ok"}
Sent(reqs, status) ==
    IF FirstFailure(status, Len(reqs)) = {} THEN reqs
    ELSE SubSeq(reqs, 1, Min(FirstFailure(status, Len(reqs))))
Outcome(reqs, status) ==
    IF FirstFailure(status, Len(reqs)) = {} THEN "Ok"
    ELSE HWIError_from(status[Min(FirstFailure(status, Len(reqs)))])

(***************************************************************************)
(* ledger.rs: the operations of Ledger.                                    *)
(***************************************************************************)

Names == {"alice", "bob"}
Hmacs == {None, Some("hmac1")}


\* Ledger::display_address, AddressScript::P2TR(path): [requests, tag].
display_address_P2TR(path, status) ==
    LET children == bip86_path_child_numbers(path)
    IN  IF children = None THEN [requests |-> << >>, tag |-> "InvalidParameter"]
        ELSE
        LET normal_children == SubSeq(children[1], 4, 5)
            extracted == extract_keys_and_template("tr([f00dbabe/86'/0'/0']xpubDEV/**)")
            w == WalletPolicy_new("", extracted.descriptor_template, extracted.keys)
            reqs == << get_master_fingerprint,
                       get_extended_pubkey(display_xpub),
                       get_wallet_address(w, None, normal_children[1] = Normal(0),
                                          normal_children[2].index, TRUE) >>
        IN  [requests |-> Sent(reqs, status), tag |-> Outcome(reqs, status)]

\* The Miniscript arm with the display argument taken from
\* options.display_xpub, as get_extended_pubkey takes it.
display_address_Miniscript_display_xpub(index, change, status) ==
    IF wallet = None THEN [requests |-> << >>, tag |-> "MissingPolicy"]
    ELSE LET reqs == << get_wallet_address(wallet[1].policy, wallet[1].hmac,
                                           change, index, display_xpub) >>
         IN  [requests |-> Sent(reqs, status), tag |-> Outcome(reqs, status)]

\* Ledger::display_address, AddressScript::Miniscript {index, change}.
display_address_Miniscript(index, change, status) ==
    IF wallet = None THEN [requests |-> << >>, tag |-> "MissingPolicy"]
    ELSE LET reqs == << get_wallet_address(wallet[1].policy, wallet[1].hmac,
                                           change, index, TRUE) >>
         IN  [requests |-> Sent(reqs, status), tag |-> Outcome(reqs, status)]

\* Ledger::register_wallet: [requests, tag, value].
register_wallet(name, pol, status) ==
    LET extracted == extract_keys_and_template(pol)
    IN  IF extracted.tag # "Ok"
        THEN [requests |-> << >>, tag |-> extracted.tag, value |-> None]
        ELSE LET w == WalletPolicy_new(name, extracted.descriptor_template, extracted.keys)
                 reqs == << client_register_wallet(w) >>
             IN  [requests |-> Sent(reqs, status), tag |-> Outcome(reqs, status),
                  value |-> IF Outcome(reqs, status) = "Ok" THEN Some("hmac1") ELSE None]

\* Ledger::is_wallet_registered without the test of the proof.
is_wallet_registered_no_hmac_test(name, pol) ==
    IF wallet # None
    THEN LET extracted == extract_keys_and_template(pol)
         IN  IF extracted.tag # "Ok" THEN [tag |-> extracted.tag, value |-> FALSE]
             ELSE [tag |-> "Ok",
                   value |-> /\ name = wallet[1].policy.name
                             /\ extracted.descriptor_template
                                    = wallet[1].policy.descriptor_template
                             /\ extracted.keys = wallet[1].policy.keys]
    ELSE [tag |-> "Ok", value |-> FALSE]

\* Ledger::is_wallet_registered: [tag, value].
is_wallet_registered(name, pol) ==
    IF wallet # None
    THEN LET extracted == extract_keys_and_template(pol)
         IN  IF extracted.tag # "Ok" THEN [tag |-> extracted.tag, value |-> FALSE]
             ELSE [tag |-> "Ok",
                   value |-> /\ wallet[1].hmac # None
                             /\ name = wallet[1].policy.name
                             /\ extracted.descriptor_template
                                    = wallet[1].policy.descriptor_template
                             /\ extracted.keys = wallet[1].policy.keys]
    ELSE [tag |-> "Ok", value |-> FALSE]

(***************************************************************************)
(* ledger.rs: sign_tx.                                                     *)
(***************************************************************************)

Pubkeys == {"pkA", "pkB"}
Leaves == {"leaf1"}
Signatures == {"sig1", "sig2"}

\* One input of the Psbt: the three places sign_tx writes.  "none" is an
\* absent map entry or an absent tap_key_sig.
EmptyInput ==
    [partial_sigs |-> [k \in Pubkeys |-> "none"],
     tap_script_sigs |-> [k \in Pubkeys \X Leaves |-> "none"],
     tap_key_sig |-> "none"]
SignedInput ==
    [partial_sigs |-> [k \in Pubkeys |-> IF k = "pkA" THEN "sig2" ELSE "none"],
     tap_script_sigs |-> [k \in Pubkeys \X Leaves |-> "none"],
     tap_key_sig |-> "sig2"]

\* The transactions given to sign_tx.
Psbts == { <<SignedInput>>, <<EmptyInput, SignedInput>> }

\* (usize, PartialSignature): Sig(key, sig), TapScriptSig(key, Some(leaf), sig)
\* and TapScriptSig(key, None, sig).
\* The input indices of the records: below the number of inputs of both
\* transactions, of the longer one only, and of none.
InputIndices == {0, 1, 2}

SignatureRecords ==
    { [index |-> i, kind |-> "Sig", key |-> k[1], leaf |-> "None", sig |-> k[2]] :
          i \in InputIndices, k \in {<<"pkA", "sig1">>, <<"pkA", "sig2">>, <<"pkB", "sig1">>} }
    \cup
    { [index |-> i, kind |-> "TapScriptSig", key |-> "pkA", leaf |-> l, sig |-> s] :
          i \in InputIndices, l \in Leaves \cup {"None"}, s \in Signatures }

SignatureLists == UNION {[1..n -> SignatureRecords] : n \in 0..MaxRecords}

\* The match on sig, with or_insert in place of insert: an entry that is
\* present is kept.
MergeSignature_keep_present(input, sig) ==
    CASE sig.kind = "Sig" ->
             IF input.partial_sigs[sig.key] # "none" THEN input
             ELSE [input EXCEPT !.partial_sigs[sig.key] = sig.sig]
      [] sig.kind = "TapScriptSig" /\ sig.leaf # "None" ->
             IF input.tap_script_sigs[<<sig.key, sig.leaf>>] # "none" THEN input
             ELSE [input EXCEPT !.tap_script_sigs[<<sig.key, sig.leaf>>] = sig.sig]
      [] sig.kind = "TapScriptSig" /\ sig.leaf = "None" ->
             IF input.tap_key_sig # "none" THEN input
             ELSE [input EXCEPT !.tap_key_sig = sig.sig]

\* The match on sig of sign_tx: the merge of one record into its input.
MergeSignature(input, sig) ==
    CASE sig.kind = "Sig" ->
             [input EXCEPT !.partial_sigs[sig.key] = sig.sig]
      [] sig.kind = "TapScriptSig" /\ sig.leaf # "None" ->
             [input EXCEPT !.tap_script_sigs[<<sig.key, sig.leaf>>] = sig.sig]
      [] sig.kind = "TapScriptSig" /\ sig.leaf = "None" ->
             [input EXCEPT !.tap_key_sig = sig.sig]

\* The loop of sign_tx that skips a record with no input and goes on.
RECURSIVE MergeSignatures_skip(_, _)
MergeSignatures_skip(inputs, list) ==
    IF list = << >> THEN [tag |-> "Ok", inputs |-> inputs]
    ELSE IF list[1].index >= Len(inputs)
         THEN MergeSignatures_skip(inputs, Tail(list))
         ELSE MergeSignatures_skip(
                  [inputs EXCEPT ![list[1].index + 1] = MergeSignature(@, list[1])],
                  Tail(list))

\* The loop of sign_tx that looks up every input before it merges anything.
MergeSignatures_all_or_nothing(inputs, list) ==
    IF \E j \in 1..Len(list) : list[j].index >= Len(inputs)
    THEN [tag |-> "DeviceDidNotSign", inputs |-> inputs]
    ELSE MergeSignatures_skip(inputs, list)

\* The loop of sign_tx over the records: [tag, inputs].
RECURSIVE MergeSignatures(_, _)
MergeSignatures(inputs, list) ==
    IF list = << >> THEN [tag |-> "Ok", inputs |-> inputs]
    ELSE IF list[1].index >= Len(inputs)
         THEN [tag |-> "DeviceDidNotSign", inputs |-> inputs]
         ELSE MergeSignatures(
                  [inputs EXCEPT ![list[1].index + 1] = MergeSignature(@, list[1])],
                  Tail(list))

\* Ledger::sign_tx: [requests, tag, inputs].
sign_tx(inputs, status, list) ==
    IF wallet # None
    THEN LET reqs == << sign_psbt(wallet[1].policy, wallet[1].hmac) >>
         IN  IF Outcome(reqs, status) # "Ok"
             THEN [requests |-> reqs, tag |-> Outcome(reqs, status), inputs |-> inputs]
             ELSE [requests |-> reqs,
                   tag |-> MergeSignatures(inputs, list).tag,
                   inputs |-> MergeSignatures(inputs, list).inputs]
    ELSE [requests |-> << >>, tag |-> "UnimplementedMethod", inputs |-> inputs]

(***************************************************************************)
(* The session: Spec.  A session starts with CommandOptions::default().    *)
(***************************************************************************)

BitboxIdle == policy = << >> /\ result = NotCalled

Init ==
    /\ BitboxIdle
    /\ LedgerIdle

\* Ledger::with_wallet.  On a policy that does not compile the call returns
\* Err and the session, moved into the call, is gone: no state follows.
WithWallet ==
    \E name \in Names, pol \in PolicyStrings, hmac \in Hmacs :
        LET extracted == extract_keys_and_template(pol)
        IN  /\ extracted.tag = "Ok"
            /\ wallet' = Some([policy |-> WalletPolicy_new(name,
                                   extracted.descriptor_template, extracted.keys),
                               hmac |-> hmac])
            /\ requests' = << >>
            /\ ret' = Return("with_wallet", "Ok", None, name, pol, NoScript)
            /\ UNCHANGED <<display_xpub, psbt_in, sigs, psbt, bitboxVars>>

\* Ledger::display_xpub.
DisplayXpub ==
    \E display \in BOOLEAN :
        /\ display_xpub' = display
        /\ requests' = << >>
        /\ ret' = Return("display_xpub", "Ok", None, "", "", NoScript)
        /\ UNCHANGED <<wallet, psbt_in, sigs, psbt, bitboxVars>>

DisplayAddressP2TR ==
    \E path \in DerivationPaths, status \in [1..3 -> DeviceStatus] :
        LET r == display_address_P2TR(path, status)
        IN  /\ requests' = r.requests
            /\ ret' = Return("display_address", r.tag, None, "", "",
                             [kind |-> "P2TR", index |-> 0, change |-> FALSE])
            /\ UNCHANGED <<wallet, display_xpub, psbt_in, sigs, psbt, bitboxVars>>

DisplayAddressMiniscript ==
    \E index \in {0, 7}, change \in BOOLEAN, status \in [1..1 -> DeviceStatus] :
        LET r == display_address_Miniscript(index, change, status)
        IN  /\ requests' = r.requests
            /\ ret' = Return("display_address", r.tag, None, "", "",
                             [kind |-> "Miniscript", index |-> index, change |-> change])
            /\ UNCHANGED <<wallet, display_xpub, psbt_in, sigs, psbt, bitboxVars>>

RegisterWallet ==
    \E name \in Names, pol \in PolicyStrings, status \in [1..1 -> DeviceStatus] :
        LET r == register_wallet(name, pol, status)
        IN  /\ requests' = r.requests
            /\ ret' = Return("register_wallet", r.tag, r.value, name, pol, NoScript)
            /\ UNCHANGED <<wallet, display_xpub, psbt_in, sigs, psbt, bitboxVars>>

IsWalletRegistered ==
    \E name \in Names, pol \in PolicyStrings :
        LET r == is_wallet_registered(name, pol)
        IN  /\ requests' = << >>
            /\ ret' = Return("is_wallet_registered", r.tag, r.value, name, pol, NoScript)
            /\ UNCHANGED <<wallet, display_xpub, psbt_in, sigs, psbt, bitboxVars>>

Next ==
    \/ WithWallet
    \/ DisplayXpub
    \/ DisplayAddressP2TR
    \/ DisplayAddressMiniscript
    \/ RegisterWallet
    \/ IsWalletRegistered

Spec == Init /\ [][Next]_vars

(***************************************************************************)
(* Signing: SpecSign.  The session is one that with_wallet built (or the   *)
(* default one); each step is one sign_tx call on a transaction.           *)
(***************************************************************************)

SignSessions ==
    { None } \cup
    { Some([policy |-> WalletPolicy_new("alice", "wsh(multi(2,@0,@1))",
                                        <<"xpubAAA", "xpubBBB">>),
            hmac |-> h]) : h \in Hmacs }

InitSign ==
    /\ BitboxIdle
    /\ wallet \in SignSessions
    /\ display_xpub = FALSE
    /\ requests = << >>
    /\ ret = NoCall
    /\ psbt_in = << >>
    /\ sigs = << >>
    /\ psbt = << >>

\* The device answers sign_psbt with a list of records or with a failure; with
\* no wallet attached it is not asked.  sign_tx reads nothing that an earlier
\* sign_tx wrote (the transaction is its argument and the session is not
\* changed), so one call per behaviour reaches every outcome.
SignTx ==
    /\ ret = NoCall
    /\ \E inputs \in Psbts, status \in [1..1 -> DeviceStatus], list \in SignatureLists :
        LET r == sign_tx(inputs, status, list)
        IN  /\ (wallet = None \/ status[1] # "Ok") => list = << >>
            /\ psbt_in' = inputs
            /\ sigs' = list
            /\ psbt' = r.inputs
            /\ requests' = r.requests
            /\ ret' = Return("sign_tx", r.tag, None, "", "", NoScript)
            /\ UNCHANGED <<wallet, display_xpub, bitboxVars>>

NextSign == SignTx

SpecSign == InitSign /\ [][NextSign]_vars

(***************************************************************************)
(* Claims about extract_script_config_policy (SpecPolicy).                 *)
(***************************************************************************)

\* The key expressions the function matched in the policy text, in order.
Matched == find_iter(policy, 1)
MatchedKey(j) == KeyOriginInfo(SubSeq(policy, Matched[j].start, Matched[j].end)).key

\* The position of key k in the key list, counted from 0.
IndexOfKey(keys, k) == Min({i \in 1..Len(keys) : keys[i] = k}) - 1

\* The text with match j replaced by the placeholder of f[j] and every other
\* unit kept, from position p on.
RECURSIVE RenderFrom(_, _, _, _)
RenderFrom(text, ms, f, p) ==
    IF p > Len(text) THEN << >>
    ELSE LET js == {j \in 1..Len(ms) : ms[j].start = p}
         IN  IF js # {}
             THEN LET j == CHOOSE x \in js : TRUE
                  IN  <<Placeholder(f[j])>> \o RenderFrom(text, ms, f, ms[j].end + 1)
             ELSE <<text[p]>> \o RenderFrom(text, ms, f, p + 1)

WithoutChecksum(t) == IF Positions(t, "#") = {} THEN t
                      ELSE SubSeq(t, 1, Max(Positions(t, "#")) - 1)

\* The indices i whose placeholder @i occurs in template t.
PlaceholdersOf(t) == {i \in 0..Len(policy) : Contains(t, Placeholder(i))}

\* Does sub occur in t as a contiguous piece?
Occurs(sub, t) ==
    \E i \in 1..(Len(t) - Len(sub) + 1) : SubSeq(t, i, i + Len(sub) - 1) = sub

\* The text of match j that is key material: the extended key, and the
\* bracketed origin when there is one.
XpubTextOf(j) == <<policy[Matched[j].end]>>
OriginTextOf(j) == SubSeq(policy, Matched[j].start, Matched[j].end - 1)

\* C1: for every accepted policy, with N the length of the returned key list,
\* the placeholders of the template are exactly @0..@(N-1), each placeholder
\* stands where the key it indexes was (the template is the policy text with
\* every matched key expression replaced by the placeholder of its position in
\* the key list, the checksum dropped), and no matched key expression text
\* (origin or extended key) remains.
C1_PlaceholdersAreKeyIndices ==
    result.tag = "Ok" =>
        /\ PlaceholdersOf(result.template) = 0..(Len(result.keys) - 1)
        /\ \A j \in 1..Len(Matched) : Contains(result.keys, MatchedKey(j))
        /\ result.template =
               WithoutChecksum(RenderFrom(policy, Matched,
                   [j \in 1..Len(Matched) |-> IndexOfKey(result.keys, MatchedKey(j))], 1))
        /\ \A j \in 1..Len(Matched) :
               /\ ~Occurs(XpubTextOf(j), result.template)
               /\ OriginTextOf(j) # << >> => ~Occurs(OriginTextOf(j), result.template)

\* The keys of the matches in order of first appearance, without repeats.
RECURSIVE FirstAppearances(_)
FirstAppearances(j) ==
    IF j = 0 THEN << >>
    ELSE IF Contains(FirstAppearances(j - 1), MatchedKey(j))
         THEN FirstAppearances(j - 1)
         ELSE Append(FirstAppearances(j - 1), MatchedKey(j))

\* C2: the returned keys are in order of first appearance with one entry for
\* identical key expressions, and the template carries one placeholder per
\* occurrence such that identical key expressions (same fingerprint, path and
\* xpub) carry the same index at every occurrence.
C2_IdenticalKeysShareOnePlaceholder ==
    result.tag = "Ok" =>
        /\ result.keys = FirstAppearances(Len(Matched))
        /\ \E f \in [1..Len(Matched) -> 0..Len(policy)] :
               /\ \A j, k \in 1..Len(Matched) :
                      MatchedKey(j) = MatchedKey(k) => f[j] = f[k]
               /\ result.template = WithoutChecksum(RenderFrom(policy, Matched, f, 1))

\* A key expression of the text is malformed: an origin bracket with no
\* closing bracket before its extended key, a fingerprint that is not 4 bytes
\* of hex, a path component that is no child number, or an extended key that
\* does not decode.
UnclosedBracket(s) ==
    \E p \in 1..Len(s) : /\ s[p] = "["
                         /\ \E q \in (p + 1)..Len(s) :
                                /\ s[q] \in XpubTexts
                                /\ \A r \in (p + 1)..(q - 1) : s[r] # "]"
BadFingerprint(s) ==
    \E p \in 1..(Len(s) - 1) : s[p] = "[" /\ s[p + 1] \notin DOMAIN FingerprintBytes
BadPath(s) ==
    \E p \in 1..(Len(s) - 1) : s[p] = "/" /\ s[p + 1] \notin ChildNumberTexts
UndecodableKey(s) ==
    \E p \in 1..Len(s) : s[p] \in XpubTexts \ ValidXpubTexts
Malformed(s) ==
    UnclosedBracket(s) \/ BadFingerprint(s) \/ BadPath(s) \/ UndecodableKey(s)

\* C3: when a key expression of the policy is malformed, the function fails
\* as a whole with InvalidParameter, returning no template and no key list.
C3_MalformedKeyFails ==
    (result # NotCalled /\ Malformed(policy)) => result = InvalidParameter

(***************************************************************************)
(* Claims about the Ledger session (Spec).                                 *)
(***************************************************************************)

\* The address requests among the requests of the last operation.
AddressRequests == {k \in 1..Len(requests) : requests[k].op = "get_wallet_address"}

\* C6: is_wallet_registered(name, policy), when it returns Ok, returns true
\* exactly when a wallet policy is attached, its proof is present, and its
\* name, template and key list equal the given name and the template and key
\* list compiled from the given policy string; so never on a session whose
\* wallet has no proof, whatever was called before (register_wallet included).
C6_RegisteredNeedsProofAndEqualFields ==
    (ret.op = "is_wallet_registered" /\ ret.tag = "Ok") =>
        (ret.value = TRUE <=>
            /\ wallet # None
            /\ wallet[1].hmac # None
            /\ wallet[1].policy.name = ret.name
            /\ wallet[1].policy.descriptor_template
                   = extract_keys_and_template(ret.policy).descriptor_template
            /\ wallet[1].policy.keys = extract_keys_and_template(ret.policy).keys)

\* is_wallet_registered has returned true.
C6_Witness ==
    ret.op = "is_wallet_registered" /\ ret.tag = "Ok" /\ ret.value = TRUE

\* C7: every get_wallet_address request display_address sends, for the P2TR
\* and the Miniscript variant and whatever display_xpub is, has display true.
C7_AddressRequestsAlwaysDisplay ==
    \A k \in AddressRequests : requests[k].display = TRUE

\* display_address has sent an address request on a session whose
\* display_xpub option is false.
C7_Witness ==
    ret.op = "display_address" /\ ~display_xpub /\ AddressRequests # {}

\* C8: display_address for Miniscript sends an address request only when the
\* session has an attached wallet policy together with its proof; when the
\* policy or its proof is absent the call fails with MissingPolicy and sends
\* no address request.
C8_MiniscriptNeedsPolicyAndProof ==
    (ret.op = "display_address" /\ ret.script.kind = "Miniscript") =>
        \/ (wallet # None /\ wallet[1].hmac # None)
        \/ (ret.tag = "MissingPolicy" /\ AddressRequests = {})

(***************************************************************************)
(* Claims about sign_tx (SpecSign).                                        *)
(***************************************************************************)

\* The place of the transaction a record writes: an entry of partial_sigs or
\* of tap_script_sigs, or tap_key_sig, of one input.
TargetOf(rec) ==
    CASE rec.kind = "Sig" ->
             [index |-> rec.index, slot |-> "partial_sigs", key |-> rec.key, leaf |-> "None"]
      [] rec.kind = "TapScriptSig" /\ rec.leaf # "None" ->
             [index |-> rec.index, slot |-> "tap_script_sigs", key |-> rec.key, leaf |-> rec.leaf]
      [] rec.kind = "TapScriptSig" /\ rec.leaf = "None" ->
             [index |-> rec.index, slot |-> "tap_key_sig", key |-> "None", leaf |-> "None"]

\* Every such place of a transaction of n inputs.
Targets(n) ==
    {[index |-> i, slot |-> "partial_sigs", key |-> k, leaf |-> "None"] :
         i \in 0..(n - 1), k \in Pubkeys}
    \cup {[index |-> i, slot |-> "tap_script_sigs", key |-> k, leaf |-> l] :
         i \in 0..(n - 1), k \in Pubkeys, l \in Leaves}
    \cup {[index |-> i, slot |-> "tap_key_sig", key |-> "None", leaf |-> "None"] :
         i \in 0..(n - 1)}

ValueAt(inputs, t) ==
    CASE t.slot = "partial_sigs" -> inputs[t.index + 1].partial_sigs[t.key]
      [] t.slot = "tap_script_sigs" -> inputs[t.index + 1].tap_script_sigs[<<t.key, t.leaf>>]
      [] t.slot = "tap_key_sig" -> inputs[t.index + 1].tap_key_sig

InRange(j) == sigs[j].index < Len(psbt_in)
OutOfRange == {j \in 1..Len(sigs) : ~InRange(j)}

\* The records among the first n of the list that address place t.
Writers(t, n) == {j \in 1..n : TargetOf(sigs[j]) = t}

\* What place t holds once the first n records are merged in list order.
AfterMerging(t, n) ==
    IF Writers(t, n) = {} THEN ValueAt(psbt_in, t) ELSE sigs[Max(Writers(t, n))].sig

\* C4 as stated: when the returned list holds a record whose input index is
\* not below the number of inputs, sign_tx fails with DeviceDidNotSign and the
\* inputs of the transaction are the same after the call as before it.
C4_OutOfRangeLeavesInputsUntouched ==
    (ret.op = "sign_tx" /\ OutOfRange # {}) =>
        (ret.tag = "DeviceDidNotSign" /\ psbt = psbt_in)

\* C4 as amended: in that case sign_tx fails with DeviceDidNotSign and the
\* inputs are the same after the call as before it except for the entries
\* addressed by the records that precede the first out-of-range record.
C4_OutOfRangeTouchesOnlyEarlierTargets ==
    (ret.op = "sign_tx" /\ OutOfRange # {}) =>
        /\ ret.tag = "DeviceDidNotSign"
        /\ Len(psbt) = Len(psbt_in)
        /\ \A t \in Targets(Len(psbt_in)) :
               Writers(t, Min(OutOfRange) - 1) = {} => ValueAt(psbt, t) = ValueAt(psbt_in, t)

\* sign_tx has failed on a list with an out-of-range record, after it changed
\* the transaction, leaving an entry that was present before as it was.
C4_Witness ==
    /\ ret.op = "sign_tx" /\ OutOfRange # {} /\ ret.tag = "DeviceDidNotSign"
    /\ psbt # psbt_in
    /\ \E t \in Targets(Len(psbt_in)) :
           ValueAt(psbt_in, t) # "none" /\ ValueAt(psbt, t) = ValueAt(psbt_in, t)

\* C5: sign_tx on a session with no wallet policy attached fails with
\* MissingPolicy, sends no request to the device and leaves the transaction
\* as it was.
C5_SignWithoutPolicyIsMissingPolicy ==
    (ret.op = "sign_tx" /\ wallet = None) =>
        (ret.tag = "MissingPolicy" /\ requests = << >> /\ psbt = psbt_in)

\* C9: for a list whose records all have in-range input indices, after
\* sign_tx each place holds the signature of the last record addressing it,
\* and every place no record addresses is unchanged.
C9_LastRecordWinsPerTarget ==
    (ret.op = "sign_tx" /\ OutOfRange = {}) =>
        /\ sigs # << >> => ret.tag = "Ok"
        /\ Len(psbt) = Len(psbt_in)
        /\ \A t \in Targets(Len(psbt_in)) : ValueAt(psbt, t) = AfterMerging(t, Len(sigs))

\* sign_tx has merged a list in which two records with different signatures
\* address the same place, another record addresses a different place, and an
\* entry present before is addressed by none.
C9_Witness ==
    /\ ret.op = "sign_tx" /\ ret.tag = "Ok" /\ OutOfRange = {}
    /\ \E j, k \in 1..Len(sigs) :
           j < k /\ TargetOf(sigs[j]) = TargetOf(sigs[k]) /\ sigs[j].sig # sigs[k].sig
    /\ \E j, k \in 1..Len(sigs) : TargetOf(sigs[j]) # TargetOf(sigs[k])
    /\ \E t \in Targets(Len(psbt_in)) :
           ValueAt(psbt_in, t) # "none" /\ Writers(t, Len(sigs)) = {}

\* C10: sign_tx stops with DeviceDidNotSign at the first record with an
\* out-of-range input index; the merges of the records before it stay applied
\* and no record after it is applied.
C10_StopsAtFirstOutOfRangeNoRollback ==
    (ret.op = "sign_tx" /\ OutOfRange # {}) =>
        /\ ret.tag = "DeviceDidNotSign"
        /\ \A t \in Targets(Len(psbt_in)) :
               ValueAt(psbt, t) = AfterMerging(t, Min(OutOfRange) - 1)

\* sign_tx has stopped at an out-of-range record that has a record before it,
\* whose signature is now in the transaction and was not before, and an
\* in-range record after it, whose signature is not in the transaction.
C10_Witness ==
    /\ ret.op = "sign_tx" /\ ret.tag = "DeviceDidNotSign"
    /\ \E j, k, l \in 1..Len(sigs) :
           /\ j < k /\ k < l /\ k = Min(OutOfRange) /\ InRange(l)
           /\ ValueAt(psbt, TargetOf(sigs[j])) = sigs[j].sig
           /\ ValueAt(psbt_in, TargetOf(sigs[j])) # sigs[j].sig
           /\ ValueAt(psbt, TargetOf(sigs[l])) # sigs[l].sig

====
